---- MODULE Spec2Model ----
(***************************************************************************)
(* tantivy-remote: a tantivy Directory over a remote object store.         *)
(*                                                                         *)
(* The model covers the Cache (src/src/cache.rs: created-files, file       *)
(* handles, metadata), the File handle (src/src/file.rs), the Writer       *)
(* (src/src/writer.rs) and the Directory methods that drive them           *)
(* (src/src/directory.rs, src/src/operator.rs).                            *)
(*                                                                         *)
(* Caller threads call the synchronous Directory methods; each call runs   *)
(* its future on the calling thread (Handle::block_on), so a thread is a   *)
(* sequential process and the interleaving of threads is the model's       *)
(* nondeterminism.  The scc::HashMap behind every mapping locks one bucket *)
(* per access: read_sync/read_async take the bucket's lock shared,         *)
(* entry_sync takes it exclusively and keeps it for as long as the Entry   *)
(* lives.  Which bucket a key hashes to is not decided by this repository, *)
(* so it is chosen in Init.                                                *)
(***************************************************************************)
EXTENDS Naturals, Sequences, FiniteSets, TLC

\* ---------------------------------------------------------------- bounds

\* Longest object content (in bytes) a Writer may buffer.
MaxLen == 2

\* Most DirectoryLock guards of one lock a thread keeps at a time.
MaxGuards == 2

\* Most calls of the crate a thread is inside at a time (the call graph of
\* the crate has no cycle and its longest chain has this many calls).
MaxDepth == 9

\* The caller threads.
Threads == {1, 2}

\* Namespaced paths of non-atomic files (RemoteDirectory::path is injective).
Paths == {"a", "b"}

\* Buckets of one scc::HashMap.
Buckets == {1, 2}

\* The locks tantivy asks a Directory for (INDEX_WRITER_LOCK, META_LOCK).
LockNames == {".tantivy-writer.lock", ".tantivy-meta.lock"}

Bytes == {"x", "y"}

RECURSIVE SeqsUpTo(_)
\* All byte sequences of length at most n.
SeqsUpTo(n) ==
    IF n = 0 THEN {<<>>}
    ELSE LET S == SeqsUpTo(n - 1)
         IN  S \cup {Append(s, b) : s \in {u \in S : Len(u) = n - 1}, b \in Bytes}

Contents == SeqsUpTo(MaxLen)

\* The buffers a single write call may pass.
Chunks == {<<"x">>, <<"y">>, <<"x", "y">>}

\* ----------------------------------------------------------------- state

VARIABLES
    store,          \* the remote object store: path -> object
    bucket,         \* the bucket each path hashes to
    created,        \* CreatedCache: path -> flushed flag, for the reserved paths
    files,          \* FilesCache: path -> handle (index into handles), 0 if absent
    metadata,       \* MetadataCache: path -> snapshot (index into snaps), 0 if absent
    snaps,          \* the Arc<Metadata> objects allocated so far
    handles,        \* the File objects allocated so far
    filesLock,      \* FilesCache: bucket -> thread holding its Entry, 0 if none
    metaLock,       \* MetadataCache: bucket -> thread holding its Entry, 0 if none
    pc,             \* thread -> where it is inside its current call
    op,             \* thread -> the Directory method it is in ("none" when idle)
    arg,            \* thread -> the path of its current call
    local,          \* thread -> what its open closure holds
    writer,         \* thread -> the Writer it owns, NoWriter if none
    last,           \* history: the call that returned in the last step
    populateOk,     \* history: path -> invocations that returned Ok
    snapFresh,      \* history: snapshots whose object is unchanged since the stat
    reopened,       \* history: paths whose handle was returned by a
                    \* get_file_handle begun after the object was last stored
    atomic,         \* the metadata store: atomic path -> row of this index
    locks,          \* thread -> lock -> DirectoryLock guards the thread holds
    stack           \* thread -> the calls it is inside, outermost first

vars == <<store, bucket, created, files, metadata, snaps, handles, filesLock,
          metaLock, pc, op, arg, local, writer, last, populateOk, snapFresh, reopened,
          atomic, locks, stack>>

cacheVars == <<created, files, metadata, snaps, handles, filesLock, metaLock>>

threadVars == <<pc, op, arg, local>>

historyVars == <<populateOk, snapFresh, reopened>>

\* What the lookups, the Writers and the reads leave alone: the metadata
\* store, the lock guards and the call stacks.
dirVars == <<atomic, locks, stack>>

NoObject == [kind |-> "none", content |-> <<>>, by |-> "none"]

\* An object of the store.  by is history: "writer" when the shutdown of a
\* Writer of this directory stored the content.
FileObject(content, by) == [kind |-> "file", content |-> content, by |-> by]

DirObject == [kind |-> "dir", content |-> <<>>, by |-> "none"]

\* A CreatedEntry: its path and whether done() has been called.
NoEntry == [path |-> "none", done |-> FALSE]

\* A Writer: its CreatedEntry and the remote stream it wraps (stream is the
\* stream's state, buf the bytes it has accepted; chunks is history, the
\* buffers of the write calls in call order).
NoWriter == [entry |-> NoEntry, stream |-> "none", buf |-> <<>>, chunks |-> <<>>]

\* The call that returned in the last step, none if the step was inside a
\* call.  kind is "ok" or the error; val is the value of an Ok (a handle, 1/0
\* for exists' true/false, the length a write took) and bytes what a read
\* returned.  The other fields are history: snap is the snapshot the call
\* got or read through, via how its metadata lookup ended ("fast": the fast
\* path hit, "occupied": the Entry was occupied, "populated": it ran the
\* populate callback itself, "none": it made no lookup), holder the owner
\* of the reservation that made a create fail, full whether a read asked
\* for the range [0, len()), again whether done() had been called on the
\* guard before the call called it (for atomic_write: whether the row was
\* there before), remote the number of reads the call asked of the remote
\* reader.
NoCall ==
    [op |-> "none", path |-> "none", kind |-> "none", val |-> 0,
     bytes |-> <<>>, snap |-> 0, via |-> "none", holder |-> 0,
     full |-> FALSE, again |-> FALSE, remote |-> 0]

Call(o, p, k, v) ==
    [NoCall EXCEPT !.op = o, !.path = p, !.kind = k, !.val = v]

NoLocal == [snap |-> 0, via |-> "none", since |-> FALSE]

\* ------------------------------------------------- the remote object store

\* opendal's stat as Operator::metadata reads it: the object's kind and
\* content length, NotFound for no object, any other error when io fails.
Stat(obj, io) ==
    IF io = "error" THEN [kind |-> "other_error", is_file |-> FALSE, content_length |-> 0]
    ELSE IF obj.kind = "none"
         THEN [kind |-> "not_found", is_file |-> FALSE, content_length |-> 0]
         ELSE [kind |-> "ok", is_file |-> obj.kind = "file",
               content_length |-> Len(obj.content)]

\* An Operator::metadata without the is_file test: whatever stat finds is
\* returned.
OperatorMetadataAnyKind(obj, io) ==
    LET st == Stat(obj, io)
    IN  IF st.kind = "ok"
        THEN [kind |-> "ok", content_length |-> st.content_length]
        ELSE IF st.kind = "not_found"
             THEN [kind |-> "not_found", content_length |-> 0]
             ELSE [kind |-> "io_error", content_length |-> 0]

\* Operator::metadata: Ok(metadata) for a file, FileDoesNotExist for a
\* directory or a missing object, IoError for any other failure.
OperatorMetadata(obj, io) ==
    LET st == Stat(obj, io)
    IN  IF st.kind = "ok"
        THEN IF st.is_file
             THEN [kind |-> "ok", content_length |-> st.content_length]
             ELSE [kind |-> "not_found", content_length |-> 0]
        ELSE IF st.kind = "not_found"
             THEN [kind |-> "not_found", content_length |-> 0]
             ELSE [kind |-> "io_error", content_length |-> 0]

\* What a process outside this directory may store at a path.
ExternalObjects == {NoObject, DirObject, FileObject(<<"y">>, "external")}

\* The object at path p becomes obj.  The history notes that the snapshots
\* of p, the handle returned for p and the get_file_handle calls running for
\* p are older than the object.
StoreObject(p, obj) ==
    /\ store' = [store EXCEPT ![p] = obj]
    /\ snapFresh' = {s \in snapFresh : snaps[s].path # p}
    /\ reopened' = reopened \ {p}
    /\ local' = [t \in Threads |->
                    IF arg[t] = p THEN [local[t] EXCEPT !.since = FALSE]
                    ELSE local[t]]

\* A process outside this directory deletes or replaces the object at p.
ExternalModify(p, obj) ==
    /\ obj \in ExternalObjects
    /\ obj # store[p]
    /\ StoreObject(p, obj)
    /\ last' = NoCall
    /\ UNCHANGED <<bucket, dirVars, cacheVars, pc, op, arg, writer, populateOk>>

\* opendal's Reader::read of [lo, hi) on an object: the bytes of the range.
\* A range that ends beyond the object is cut at its end.
ReadRange(content, lo, hi) ==
    SubSeq(content, lo + 1, IF hi <= Len(content) THEN hi ELSE Len(content))

\* ------------------------------------------------------------ the Cache

\* scc::HashMap::insert_async on the created-files mapping: the mapping with
\* path -> false added.
InsertCreated(c, p) ==
    [q \in DOMAIN c \cup {p} |-> IF q = p THEN FALSE ELSE c[q]]

\* Cache::created with an insert that overwrites: the path is reserved anew
\* whether or not it is a key.
CacheCreatedUpsert(c, p) == [ok |-> TRUE, created |-> InsertCreated(c, p)]

\* Cache::created: Ok and the new mapping, or FileAlreadyExists when the
\* path is already a key.
CacheCreated(c, p) ==
    IF p \in DOMAIN c
    THEN [ok |-> FALSE, created |-> c]
    ELSE [ok |-> TRUE, created |-> InsertCreated(c, p)]

\* CreatedEntry::done: the guard with its own flag set.
DoneEntry(e) == [e EXCEPT !.done = TRUE]

\* A done() without its own flag's test: every call updates the mapping.
DoneCreatedAlways(c, e) ==
    [q \in DOMAIN c |-> IF q = e.path THEN TRUE ELSE c[q]]

\* CreatedEntry::done, the mapping: update_sync sets the value of the
\* guard's path to true, unless done was called before (update_sync leaves
\* a mapping without the key as it is).
DoneCreated(c, e) ==
    IF e.done THEN c
    ELSE [q \in DOMAIN c |-> IF q = e.path THEN TRUE ELSE c[q]]

\* A Drop that removes the path only after done(): a Writer that fails or is
\* abandoned before its shutdown leaves its path reserved.
DropCreatedIfDone(c, e) ==
    IF e.done THEN [q \in DOMAIN c \ {e.path} |-> c[q]] ELSE c

\* A Drop that keeps the path of a flushed file (until the directory is
\* synced) and removes only the others.
DropCreatedUnlessDone(c, e) ==
    IF e.done THEN c ELSE [q \in DOMAIN c \ {e.path} |-> c[q]]

\* Drop for CreatedEntry: remove_sync of the guard's path.
DropCreated(c, e) == [q \in DOMAIN c \ {e.path} |-> c[q]]

\* A len() that asks the store: the length of the object now at the
\* handle's path.
FileLenFromStore(h) == Len(store[handles[h].path].content)

\* HasLen for File: the content length of the snapshot the handle holds.
\* (The cast to usize keeps every value the model reaches.)
FileLen(h) == snaps[handles[h].metadata].content_length

\* Dropping the Entry thread t holds unlocks its bucket.
Release(lock, t) == [b \in Buckets |-> IF lock[b] = t THEN 0 ELSE lock[b]]

\* A call returns to thread t; c records it.
Finish(t, c) ==
    /\ pc' = [pc EXCEPT ![t] = "idle"]
    /\ op' = [op EXCEPT ![t] = "none"]
    /\ arg' = [arg EXCEPT ![t] = "none"]
    /\ local' = [local EXCEPT ![t] = NoLocal]
    /\ last' = c

\* Thread t enters call o of path p and goes to label.
Enter(t, o, p, label) ==
    /\ pc' = [pc EXCEPT ![t] = label]
    /\ op' = [op EXCEPT ![t] = o]
    /\ arg' = [arg EXCEPT ![t] = p]
    /\ local' = [local EXCEPT ![t] = [NoLocal EXCEPT !.since = TRUE]]
    /\ last' = NoCall

\* Thread t moves on inside its call.
Goto(t, label) ==
    /\ pc' = [pc EXCEPT ![t] = label]
    /\ last' = NoCall
    /\ UNCHANGED <<op, arg>>

\* The metadata lookup of thread t returned snapshot s (via: how).  exists
\* answers Ok(true); the open closure of get_file_handle goes on to
\* File::open.
MetadataOk(t, s, via) ==
    IF op[t] = "exists"
    THEN /\ Finish(t, [Call("exists", arg[t], "ok", 1) EXCEPT
                          !.snap = s, !.via = via])
         /\ UNCHANGED filesLock
    ELSE /\ Goto(t, "file_insert")
         /\ local' = [local EXCEPT ![t].snap = s, ![t].via = via]
         /\ UNCHANGED filesLock

\* A failed lookup that leaves get_file_handle without dropping the vacant
\* files Entry.
MetadataErrKeepEntry(t, k) ==
    IF op[t] = "exists"
    THEN /\ Finish(t, [(IF k = "not_found"
                          THEN Call("exists", arg[t], "ok", 0)
                          ELSE Call("exists", arg[t], k, 0))
                         EXCEPT !.via = "populated"])
         /\ UNCHANGED filesLock
    ELSE /\ Finish(t, [Call("get_file_handle", arg[t], k, 0)
                         EXCEPT !.via = "populated"])
         /\ UNCHANGED filesLock

\* A failed lookup that exists answers with Ok(false) whatever the error.
MetadataErrAllAbsent(t, k) ==
    IF op[t] = "exists"
    THEN /\ Finish(t, [Call("exists", arg[t], "ok", 0)
                         EXCEPT !.via = "populated"])
         /\ UNCHANGED filesLock
    ELSE /\ Finish(t, [Call("get_file_handle", arg[t], k, 0)
                         EXCEPT !.via = "populated"])
         /\ filesLock' = Release(filesLock, t)

\* The metadata lookup of thread t failed with error k in its populate
\* callback.  exists maps FileDoesNotExist to Ok(false); in get_file_handle
\* the ? leaves the open closure and Cache::file, dropping the vacant files
\* Entry.
MetadataErr(t, k) ==
    IF op[t] = "exists"
    THEN /\ Finish(t, [(IF k = "not_found"
                          THEN Call("exists", arg[t], "ok", 0)
                          ELSE Call("exists", arg[t], k, 0))
                         EXCEPT !.via = "populated"])
         /\ UNCHANGED filesLock
    ELSE /\ Finish(t, [Call("get_file_handle", arg[t], k, 0)
                         EXCEPT !.via = "populated"])
         /\ filesLock' = Release(filesLock, t)

\* read_async and read_sync take the bucket's lock shared: they wait while
\* an Entry of that bucket is held.
CanRead(lock, p) == lock[bucket[p]] = 0

\* entry_sync takes the bucket's lock exclusively.
CanLock(lock, p) == lock[bucket[p]] = 0

\* RemoteDirectory::exists of a non-atomic path, up to the fast path of
\* MetadataCache::fetch.
Exists(t, p) ==
    /\ pc[t] = "idle"
    /\ CanRead(metaLock, p)
    /\ IF metadata[p] # 0
       THEN Finish(t, [Call("exists", p, "ok", 1) EXCEPT
                            !.snap = metadata[p], !.via = "fast"])
       ELSE Enter(t, "exists", p, "meta_entry")
    /\ UNCHANGED <<store, bucket, dirVars, cacheVars, writer, historyVars>>

\* The open closure of get_file_handle reaches the fast path of
\* MetadataCache::fetch.
MetadataRead(t) ==
    /\ pc[t] = "meta_read"
    /\ CanRead(metaLock, arg[t])
    /\ IF metadata[arg[t]] # 0
       THEN MetadataOk(t, metadata[arg[t]], "fast")
       ELSE Goto(t, "meta_entry") /\ UNCHANGED <<local, filesLock>>
    /\ UNCHANGED <<store, bucket, dirVars, created, files, metadata, snaps, handles,
                   metaLock, writer, historyVars>>

\* MetadataCache::fetch with a slow path that does not look at what the Entry
\* holds: it runs the populate callback and inserts whenever the fast path
\* missed.
MetadataEntryNoRecheck(t) ==
    /\ pc[t] = "meta_entry"
    /\ CanLock(metaLock, arg[t])
    /\ metaLock' = [metaLock EXCEPT ![bucket[arg[t]]] = t]
    /\ Goto(t, "meta_fetch")
    /\ UNCHANGED <<local, filesLock>>
    /\ UNCHANGED <<store, bucket, dirVars, created, files, metadata, snaps, handles,
                   writer, populateOk, snapFresh, reopened>>

\* MetadataCache::fetch with a slow path that lets go of the vacant Entry
\* before the populate callback runs.
MetadataEntryUnlocked(t) ==
    /\ pc[t] = "meta_entry"
    /\ CanLock(metaLock, arg[t])
    /\ IF metadata[arg[t]] # 0
       THEN /\ MetadataOk(t, metadata[arg[t]], "occupied")
            /\ UNCHANGED metaLock
       ELSE /\ UNCHANGED metaLock
            /\ Goto(t, "meta_fetch")
            /\ UNCHANGED <<local, filesLock>>
    /\ UNCHANGED <<store, bucket, dirVars, created, files, metadata, snaps, handles,
                   writer, populateOk, snapFresh, reopened>>

\* MetadataCache::fetch, slow path: an occupied Entry is returned at once, a
\* vacant one is kept while the populate callback runs.
MetadataEntry(t) ==
    /\ pc[t] = "meta_entry"
    /\ CanLock(metaLock, arg[t])
    /\ IF metadata[arg[t]] # 0
       THEN /\ MetadataOk(t, metadata[arg[t]], "occupied")
            /\ UNCHANGED metaLock
       ELSE /\ metaLock' = [metaLock EXCEPT ![bucket[arg[t]]] = t]
            /\ Goto(t, "meta_fetch")
            /\ UNCHANGED <<local, filesLock>>
    /\ UNCHANGED <<store, bucket, dirVars, created, files, metadata, snaps, handles,
                   writer, populateOk, snapFresh, reopened>>

\* A populate step that caches a failure: an error of the callback inserts
\* an empty snapshot before it is returned.
MetadataFetchNegative(t) ==
    /\ pc[t] = "meta_fetch"
    /\ \E io \in {"ok", "error"} :
         LET r == OperatorMetadata(store[arg[t]], io)
             s == Len(snaps) + 1
         IN  /\ snaps' = Append(snaps, [path |-> arg[t],
                                        content_length |-> r.content_length])
             /\ metadata' = [metadata EXCEPT ![arg[t]] = s]
             /\ IF r.kind = "ok"
                THEN /\ populateOk' = [populateOk EXCEPT ![arg[t]] = @ + 1]
                     /\ snapFresh' = snapFresh \cup {s}
                     /\ MetadataOk(t, s, "populated")
                ELSE /\ MetadataErr(t, r.kind)
                     /\ UNCHANGED <<populateOk, snapFresh>>
    /\ metaLock' = Release(metaLock, t)
    /\ UNCHANGED <<store, bucket, dirVars, created, files, handles, writer,
                   reopened>>

\* The populate callback (Operator::metadata) returns: Ok is wrapped in a
\* new Arc and inserted into the vacant Entry, an error leaves the mapping
\* as it was.  Either way the Entry is dropped.
MetadataFetch(t) ==
    /\ pc[t] = "meta_fetch"
    /\ \E io \in {"ok", "error"} :
         LET r == OperatorMetadata(store[arg[t]], io)
             s == Len(snaps) + 1
         IN  IF r.kind = "ok"
             THEN /\ snaps' = Append(snaps, [path |-> arg[t],
                                             content_length |-> r.content_length])
                  /\ metadata' = [metadata EXCEPT ![arg[t]] = s]
                  /\ populateOk' = [populateOk EXCEPT ![arg[t]] = @ + 1]
                  /\ snapFresh' = snapFresh \cup {s}
                  /\ MetadataOk(t, s, "populated")
             ELSE /\ MetadataErr(t, r.kind)
                  /\ UNCHANGED <<snaps, metadata, populateOk, snapFresh>>
    /\ metaLock' = Release(metaLock, t)
    /\ UNCHANGED <<store, bucket, dirVars, created, files, handles, writer,
                   reopened>>

\* A File::open that keeps the first snapshot the directory ever made
\* instead of the one it is given.
FileOpenFirstSnapshot(p, s) == [path |-> p, metadata |-> 1]

\* File::open: the new handle keeps the path and the snapshot it is given.
FileOpen(p, s) == [path |-> p, metadata |-> s]

\* The handle h of path p, which holds snapshot s, is returned to thread t
\* (since: the call began after the object at p was last stored).
ReturnHandle(t, p, h, s, via, since) ==
    /\ Finish(t, [Call("get_file_handle", p, "ok", h) EXCEPT
                     !.snap = s, !.via = via])
    /\ reopened' = IF since THEN reopened \cup {p} ELSE reopened

\* RemoteDirectory::get_file_handle, up to the fast path of Cache::file.
GetFileHandle(t, p) ==
    /\ pc[t] = "idle"
    /\ CanRead(filesLock, p)
    /\ IF files[p] # 0
       THEN ReturnHandle(t, p, files[p], handles[files[p]].metadata, "none", TRUE)
       ELSE Enter(t, "get_file_handle", p, "file_entry") /\ UNCHANGED reopened
    /\ UNCHANGED <<store, bucket, dirVars, cacheVars, writer, populateOk,
                   snapFresh>>

\* Cache::file with a slow path that does not look at what the Entry holds:
\* it runs open and inserts whenever the fast path missed.
FileEntryNoRecheck(t) ==
    /\ pc[t] = "file_entry"
    /\ CanLock(filesLock, arg[t])
    /\ filesLock' = [filesLock EXCEPT ![bucket[arg[t]]] = t]
    /\ Goto(t, "meta_read")
    /\ UNCHANGED <<local, reopened>>
    /\ UNCHANGED <<store, bucket, dirVars, created, files, metadata, snaps, handles,
                   metaLock, writer, populateOk, snapFresh>>

\* Cache::file, slow path: an occupied Entry is returned at once, a vacant
\* one is kept while open runs.
FileEntry(t) ==
    /\ pc[t] = "file_entry"
    /\ CanLock(filesLock, arg[t])
    /\ IF files[arg[t]] # 0
       THEN /\ ReturnHandle(t, arg[t], files[arg[t]],
                            handles[files[arg[t]]].metadata, "none", local[t].since)
            /\ UNCHANGED filesLock
       ELSE /\ filesLock' = [filesLock EXCEPT ![bucket[arg[t]]] = t]
            /\ Goto(t, "meta_read")
            /\ UNCHANGED <<local, reopened>>
    /\ UNCHANGED <<store, bucket, dirVars, created, files, metadata, snaps, handles,
                   metaLock, writer, populateOk, snapFresh>>

\* The open closure got its snapshot: File::open builds the handle,
\* insert_entry stores it in the vacant Entry, and the Entry is dropped.
FileInsert(t) ==
    /\ pc[t] = "file_insert"
    /\ LET h == Len(handles) + 1
       IN  /\ handles' = Append(handles, FileOpen(arg[t], local[t].snap))
           /\ files' = [files EXCEPT ![arg[t]] = h]
           /\ ReturnHandle(t, arg[t], h, local[t].snap, local[t].via,
                           local[t].since)
    /\ filesLock' = Release(filesLock, t)
    /\ UNCHANGED <<store, bucket, dirVars, created, metadata, snaps, metaLock, writer,
                   populateOk, snapFresh>>

\* ------------------------------------------------------------ the Writer

\* An open_write that reserves the path before it opens the remote writer.
OpenWriteReserveFirst(t, p) ==
    /\ pc[t] = "idle"
    /\ writer[t] = NoWriter
    /\ created' = CacheCreated(created, p).created
    /\ \E r \in {"ok", "already_exists", "io_error"} :
         IF r = "ok"
         THEN Enter(t, "open_write", p, "ow_created")
         ELSE Finish(t, Call("open_write", p, r, 0))
    /\ UNCHANGED <<store, bucket, dirVars, files, metadata, snaps, handles,
                   filesLock, metaLock, writer, historyVars>>

\* RemoteDirectory::open_write, up to the remote writer_with(path): Ok
\* leaves a remote writer open, an error is returned at once.
OpenWrite(t, p) ==
    /\ pc[t] = "idle"
    /\ writer[t] = NoWriter
    /\ \E r \in {"ok", "already_exists", "io_error"} :
         IF r = "ok"
         THEN Enter(t, "open_write", p, "ow_created")
         ELSE Finish(t, Call("open_write", p, r, 0))
    /\ UNCHANGED <<store, bucket, dirVars, cacheVars, writer, historyVars>>

\* The thread that owns the reservation of path p, 0 if there is none.
Holder(p) ==
    IF \E u \in Threads : writer[u].entry.path = p
    THEN CHOOSE u \in Threads : writer[u].entry.path = p
    ELSE 0

\* Writer::new: the guard and the remote stream, nothing written yet.
NewWriter(p) ==
    [entry |-> [path |-> p, done |-> FALSE], stream |-> "open",
     buf |-> <<>>, chunks |-> <<>>]

\* open_write after the remote open: Cache::created reserves the path and
\* Writer::new wraps guard and stream, or the ? returns FileAlreadyExists
\* and the remote writer is dropped unused.
OpenWriteCreated(t) ==
    /\ pc[t] = "ow_created"
    /\ LET r == CacheCreated(created, arg[t])
       IN  /\ created' = r.created
           /\ IF r.ok
              THEN /\ writer' = [writer EXCEPT ![t] = NewWriter(arg[t])]
                   /\ Finish(t, Call("open_write", arg[t], "ok", 0))
              ELSE /\ UNCHANGED writer
                   /\ Finish(t, [Call("open_write", arg[t], "already_exists", 0)
                                   EXCEPT !.holder = Holder(arg[t])])
    /\ UNCHANGED <<store, bucket, dirVars, files, metadata, snaps, handles, filesLock,
                   metaLock, historyVars>>

\* A stream that puts each buffer in front of what it accepted.
StreamWritePrepend(buf, chunk) == chunk \o buf

\* The remote stream accepts a buffer: it is appended to what was accepted.
StreamWrite(buf, chunk) == buf \o chunk

\* Write::write, and AsyncWrite::poll_write when it is Ready: the remote
\* stream takes the whole buffer, or fails; it fails once shutdown began.
WriterWrite(t, chunk) ==
    /\ pc[t] = "idle"
    /\ writer[t] # NoWriter
    /\ \/ /\ writer[t].stream = "open"
          /\ Len(writer[t].buf) + Len(chunk) <= MaxLen
          /\ writer' = [writer EXCEPT
                 ![t].buf = StreamWrite(@, chunk),
                 ![t].chunks = Append(@, chunk)]
          /\ last' = Call("write", writer[t].entry.path, "ok", Len(chunk))
       \/ /\ last' = Call("write", writer[t].entry.path, "io_error", 0)
          /\ UNCHANGED writer
    /\ UNCHANGED <<store, bucket, dirVars, cacheVars, threadVars, historyVars>>

\* Write::flush, and AsyncWrite::poll_flush when it is Ready: nothing
\* becomes visible in the store before the stream is shut down.
WriterFlush(t) ==
    /\ pc[t] = "idle"
    /\ writer[t] # NoWriter
    /\ \E k \in {"ok", "io_error"} :
         /\ k = "ok" => writer[t].stream = "open"
         /\ last' = Call("flush", writer[t].entry.path, k, 0)
    /\ UNCHANGED <<store, bucket, dirVars, cacheVars, threadVars, writer, historyVars>>

\* The object a stream's shutdown stores: the bytes the stream accepted.
Published(w) == FileObject(w.buf, "writer")

\* The remote stream of thread t's Writer completes its shutdown: the object
\* is stored, unless an earlier shutdown stored it already.
StreamClose(t) ==
    IF writer[t].stream = "closed"
    THEN UNCHANGED <<store, snapFresh, reopened, local>>
    ELSE StoreObject(writer[t].entry.path, Published(writer[t]))

\* TerminatingWrite::terminate_ref: block_on of the remote stream's own
\* shutdown (self.writer.shutdown(), not the Writer's poll_shutdown).
WriterTerminate(t) ==
    /\ pc[t] = "idle"
    /\ writer[t] # NoWriter
    /\ \/ /\ StreamClose(t)
          /\ writer' = [writer EXCEPT ![t].stream = "closed"]
          /\ last' = Call("terminate", writer[t].entry.path, "ok", 0)
       \/ /\ last' = Call("terminate", writer[t].entry.path, "io_error", 0)
          /\ UNCHANGED <<store, snapFresh, reopened, local, writer>>
    /\ UNCHANGED <<bucket, dirVars, cacheVars, pc, op, arg, populateOk>>

\* A poll_shutdown that calls done() before it looks at what the remote
\* stream answered: the flag is set on Pending as well.
WriterPollShutdownEager(t) ==
    /\ pc[t] = "idle"
    /\ writer[t] # NoWriter
    /\ \/ /\ last' = Call("poll_shutdown", writer[t].entry.path, "io_error", 0)
          /\ UNCHANGED <<store, snapFresh, reopened, local, writer, created>>
       \/ /\ writer[t].stream # "closed"
          /\ writer' = [writer EXCEPT ![t].stream = "closing",
                                      ![t].entry = DoneEntry(@)]
          /\ created' = DoneCreated(created, writer[t].entry)
          /\ last' = Call("poll_shutdown", writer[t].entry.path, "pending", 0)
          /\ UNCHANGED <<store, snapFresh, reopened, local>>
       \/ /\ StreamClose(t)
          /\ writer' = [writer EXCEPT ![t].stream = "closed",
                                      ![t].entry = DoneEntry(@)]
          /\ created' = DoneCreated(created, writer[t].entry)
          /\ last' = [Call("poll_shutdown", writer[t].entry.path, "ok", 0)
                        EXCEPT !.again = writer[t].entry.done]
    /\ UNCHANGED <<bucket, dirVars, files, metadata, snaps, handles, filesLock, metaLock,
                   pc, op, arg, populateOk>>

\* AsyncWrite::poll_shutdown: an error of the remote stream is returned by
\* the ?, Pending is passed on, and on Ready the guard's done() is called.
WriterPollShutdown(t) ==
    /\ pc[t] = "idle"
    /\ writer[t] # NoWriter
    /\ \/ /\ last' = Call("poll_shutdown", writer[t].entry.path, "io_error", 0)
          /\ UNCHANGED <<store, snapFresh, reopened, local, writer, created>>
       \/ /\ writer[t].stream # "closed"
          /\ writer' = [writer EXCEPT ![t].stream = "closing"]
          /\ last' = Call("poll_shutdown", writer[t].entry.path, "pending", 0)
          /\ UNCHANGED <<store, snapFresh, reopened, local, created>>
       \/ /\ StreamClose(t)
          /\ writer' = [writer EXCEPT ![t].stream = "closed",
                                      ![t].entry = DoneEntry(@)]
          /\ created' = DoneCreated(created, writer[t].entry)
          /\ last' = [Call("poll_shutdown", writer[t].entry.path, "ok", 0)
                        EXCEPT !.again = writer[t].entry.done]
    /\ UNCHANGED <<bucket, dirVars, files, metadata, snaps, handles, filesLock, metaLock,
                   pc, op, arg, populateOk>>

\* A drop of the Writer whose guard also removes the cached snapshot of its
\* path.
DropWriterInvalidates(t) ==
    /\ pc[t] = "idle"
    /\ writer[t] # NoWriter
    /\ created' = DropCreated(created, writer[t].entry)
    /\ metadata' = [metadata EXCEPT ![writer[t].entry.path] = 0]
    /\ writer' = [writer EXCEPT ![t] = NoWriter]
    /\ last' = Call("drop", writer[t].entry.path, "ok", 0)
    /\ UNCHANGED <<store, bucket, dirVars, files, snaps, handles, filesLock,
                   metaLock, threadVars, historyVars>>

\* The Writer of thread t is dropped: the guard's Drop removes its path from
\* the created-files mapping; a stream not shut down stores nothing.
DropWriter(t) ==
    /\ pc[t] = "idle"
    /\ writer[t] # NoWriter
    /\ created' = DropCreated(created, writer[t].entry)
    /\ writer' = [writer EXCEPT ![t] = NoWriter]
    /\ last' = Call("drop", writer[t].entry.path, "ok", 0)
    /\ UNCHANGED <<store, bucket, dirVars, files, metadata, snaps, handles, filesLock,
                   metaLock, threadVars, historyVars>>

\* ------------------------------------------------------- the File handle

\* A read that keeps what the last full read returned and answers a repeat
\* of it from memory.
ReadBytesCached(t, h, lo, hi) ==
    /\ pc[t] = "idle"
    /\ h \in 1..Len(handles)
    /\ lo <= hi
    /\ LET p == handles[h].path
           c == [Call("read_bytes", p, "ok", h) EXCEPT
                    !.snap = handles[h].metadata,
                    !.full = (lo = 0 /\ hi = FileLen(h))]
       IN  IF last.op = "read_bytes" /\ last.kind = "ok" /\ last.val = h
              /\ last.full /\ c.full
           THEN last' = [last EXCEPT !.remote = 0]
           ELSE \/ /\ store[p].kind = "file"
                   /\ last' = [c EXCEPT !.bytes = ReadRange(store[p].content, lo, hi),
                                        !.remote = 1]
                \/ \E n \in {0, 1} :
                      last' = [c EXCEPT !.kind = "io_error", !.remote = n]
    /\ UNCHANGED <<store, bucket, dirVars, cacheVars, threadVars, writer, historyVars>>

\* FileHandle::read_bytes_async of the range [lo, hi) through handle h, and
\* read_bytes, which is block_on of it: a new remote reader is opened for
\* the handle's path and the range is read from the object as it is now.
\* The call fails when the reader cannot be opened (nothing is read) or
\* when its read fails.
ReadBytes(t, h, lo, hi) ==
    /\ pc[t] = "idle"
    /\ h \in 1..Len(handles)
    /\ lo <= hi
    /\ LET p == handles[h].path
           c == [Call("read_bytes", p, "ok", h) EXCEPT
                    !.snap = handles[h].metadata,
                    !.full = (lo = 0 /\ hi = FileLen(h))]
       IN  \/ /\ store[p].kind = "file"
              /\ last' = [c EXCEPT !.bytes = ReadRange(store[p].content, lo, hi),
                                   !.remote = 1]
           \/ \E n \in {0, 1} :
                 last' = [c EXCEPT !.kind = "io_error", !.remote = n]
    /\ UNCHANGED <<store, bucket, dirVars, cacheVars, threadVars, writer, historyVars>>

\* ----------------------------------------------------- the metadata store

\* The paths tantivy writes with atomic_write (META_JSON, MANAGED_JSON).
AtomicPaths == {"meta.json", ".managed.json"}

\* A row of tantivy.metadata for this directory's index and one path, or
\* its absence.
NoRow == [present |-> FALSE, content |-> <<>>]

Row(content) == [present |-> TRUE, content |-> content]

\* An insert that keeps the row a path already has.
MetadataStoreWriteIfAbsent(rows, p, content) ==
    IF rows[p].present THEN rows ELSE [rows EXCEPT ![p] = Row(content)]

\* MetadataStore::write: INSERT ... ON CONFLICT (index, path) DO UPDATE SET
\* content.
MetadataStoreWrite(rows, p, content) == [rows EXCEPT ![p] = Row(content)]

\* MetadataStore::read: SELECT content ... fetch_optional.
MetadataStoreRead(rows, p) == rows[p]

\* MetadataStore::exists: SELECT 1 ... fetch_optional, is_some.
MetadataStoreExists(rows, p) == rows[p].present

\* RemoteDirectory::atomic_write: block_on of MetadataStore::write; a
\* statement that fails is not applied.
AtomicWrite(t, p, content) ==
    /\ pc[t] = "idle"
    /\ \/ /\ atomic' = MetadataStoreWrite(atomic, p, content)
          /\ last' = [Call("atomic_write", p, "ok", 0) EXCEPT
                          !.bytes = content, !.again = atomic[p].present]
       \/ /\ last' = [Call("atomic_write", p, "io_error", 0) EXCEPT
                          !.bytes = content]
          /\ UNCHANGED atomic
    /\ UNCHANGED <<store, bucket, cacheVars, threadVars, writer, historyVars,
                   locks, stack>>

\* RemoteDirectory::atomic_read: block_on of MetadataStore::read; no row is
\* FileDoesNotExist.
AtomicRead(t, p) ==
    /\ pc[t] = "idle"
    /\ LET row == MetadataStoreRead(atomic, p)
       IN  \/ last' = IF row.present
                      THEN [Call("atomic_read", p, "ok", 0) EXCEPT
                               !.bytes = row.content]
                      ELSE Call("atomic_read", p, "not_found", 0)
           \/ last' = Call("atomic_read", p, "io_error", 0)
    /\ UNCHANGED <<store, bucket, cacheVars, threadVars, writer, historyVars,
                   dirVars>>

\* RemoteDirectory::exists of META_JSON or MANAGED_JSON: block_on of
\* MetadataStore::exists.
ExistsAtomic(t, p) ==
    /\ pc[t] = "idle"
    /\ \/ last' = Call("exists", p, "ok",
                        IF MetadataStoreExists(atomic, p) THEN 1 ELSE 0)
       \/ last' = Call("exists", p, "io_error", 0)
    /\ UNCHANGED <<store, bucket, cacheVars, threadVars, writer, historyVars,
                   dirVars>>

\* ----------------------------------------------------------------- locks

\* An acquire_lock that refuses a lock some guard is held for.
AcquireLockExclusive(t, l) ==
    /\ pc[t] = "idle"
    /\ locks[t][l] < MaxGuards
    /\ IF \E u \in Threads : locks[u][l] > 0
       THEN /\ last' = Call("acquire_lock", l, "lock_busy", 0)
            /\ UNCHANGED locks
       ELSE /\ locks' = [locks EXCEPT ![t][l] = @ + 1]
            /\ last' = Call("acquire_lock", l, "ok", 0)
    /\ UNCHANGED <<store, bucket, cacheVars, threadVars, writer, historyVars,
                   atomic, stack>>

\* RemoteDirectory::acquire_lock: a new guard around (), whatever the lock
\* and whoever holds guards of it.
AcquireLock(t, l) ==
    /\ pc[t] = "idle"
    /\ locks[t][l] < MaxGuards
    /\ locks' = [locks EXCEPT ![t][l] = @ + 1]
    /\ last' = Call("acquire_lock", l, "ok", 0)
    /\ UNCHANGED <<store, bucket, cacheVars, threadVars, writer, historyVars,
                   atomic, stack>>

\* A DirectoryLock guard is dropped: dropping the boxed () does nothing.
DropLock(t, l) ==
    /\ pc[t] = "idle"
    /\ locks[t][l] > 0
    /\ locks' = [locks EXCEPT ![t][l] = @ - 1]
    /\ last' = Call("drop_lock", l, "ok", 0)
    /\ UNCHANGED <<store, bucket, cacheVars, threadVars, writer, historyVars,
                   atomic, stack>>

\* ---------------------------------------------------------------- delete

\* A delete that drops the cached snapshot and handle of the path.
DeleteInvalidates(t, p) ==
    /\ pc[t] = "idle"
    /\ CanLock(metaLock, p)
    /\ CanLock(filesLock, p)
    /\ metadata' = [metadata EXCEPT ![p] = 0]
    /\ files' = [files EXCEPT ![p] = 0]
    /\ last' = Call("delete", p, "ok", 0)
    /\ UNCHANGED <<store, bucket, dirVars, created, snaps, handles, filesLock,
                   metaLock, threadVars, writer, historyVars>>

\* A delete that removes the remote object of the path.
DeleteRemoves(t, p) ==
    /\ pc[t] = "idle"
    /\ StoreObject(p, NoObject)
    /\ last' = Call("delete", p, "ok", 0)
    /\ UNCHANGED <<bucket, dirVars, cacheVars, pc, op, arg, writer, populateOk>>

\* RemoteDirectory::delete: Ok(()) and nothing else.
Delete(t, p) ==
    /\ pc[t] = "idle"
    /\ last' = Call("delete", p, "ok", 0)
    /\ UNCHANGED <<store, bucket, dirVars, cacheVars, threadVars, writer,
                   historyVars>>

\* ----------------------------------------------------- the blocking bridge

\* A call a thread is inside: the function, and whether it was entered
\* through Handle::block_on.
Frame(fn, bridged) == [fn |-> fn, bridged |-> bridged]

\* The operations a caller thread invokes: the Directory methods, the
\* FileHandle methods, the Write, AsyncWrite and TerminatingWrite methods of
\* the Writer, and its drop.
EntryPoints ==
    {"get_file_handle", "delete", "exists", "open_write", "atomic_read",
     "atomic_write", "sync_directory", "watch", "acquire_lock",
     "File::read_bytes", "File::len",
     "Writer::write", "Writer::flush", "Writer::poll_write",
     "Writer::poll_flush", "Writer::poll_shutdown", "Writer::terminate_ref",
     "Writer::drop"}

\* Callees with a synchronous exists() inside the open callback of
\* get_file_handle.
CalleesNested(f) ==
    CASE f = "get_file_handle" ->
             {Frame("RemoteDirectory::path", FALSE),
              Frame("get_file_handle::async", TRUE)}
      [] f = "get_file_handle::async" -> {Frame("Cache::file", FALSE)}
      [] f = "Cache::file" -> {Frame("open", FALSE)}
      [] f = "open" -> {Frame("exists", FALSE), Frame("File::open", FALSE)}
      [] f = "exists" ->
             {Frame("MetadataStore::exists", TRUE),
              Frame("RemoteDirectory::path", FALSE),
              Frame("RemoteDirectory::metadata", TRUE)}
      [] f = "RemoteDirectory::metadata" -> {Frame("Cache::metadata", FALSE)}
      [] f = "Cache::metadata" -> {Frame("MetadataCache::fetch", FALSE)}
      [] f = "MetadataCache::fetch" -> {Frame("fetch", FALSE)}
      [] f = "fetch" -> {Frame("Operator::metadata", FALSE)}
      [] OTHER -> {}

\* The calls the body of f makes, and which of them go through
\* self.rt.block_on(..).
Callees(f) ==
    CASE f = "get_file_handle" ->
             {Frame("RemoteDirectory::path", FALSE),
              Frame("get_file_handle::async", TRUE)}
      [] f = "get_file_handle::async" -> {Frame("Cache::file", FALSE)}
      [] f = "Cache::file" -> {Frame("open", FALSE)}
      [] f = "open" ->
             {Frame("RemoteDirectory::metadata", FALSE),
              Frame("File::open", FALSE)}
      [] f = "RemoteDirectory::metadata" -> {Frame("Cache::metadata", FALSE)}
      [] f = "Cache::metadata" -> {Frame("MetadataCache::fetch", FALSE)}
      [] f = "MetadataCache::fetch" -> {Frame("fetch", FALSE)}
      [] f = "fetch" -> {Frame("Operator::metadata", FALSE)}
      [] f = "exists" ->
             {Frame("MetadataStore::exists", TRUE),
              Frame("RemoteDirectory::path", FALSE),
              Frame("RemoteDirectory::metadata", TRUE)}
      [] f = "open_write" ->
             {Frame("RemoteDirectory::path", FALSE),
              Frame("open_write::async", TRUE)}
      [] f = "open_write::async" ->
             {Frame("Cache::created", FALSE), Frame("Writer::new", FALSE)}
      [] f = "atomic_read" -> {Frame("MetadataStore::read", TRUE)}
      [] f = "atomic_write" -> {Frame("MetadataStore::write", TRUE)}
      [] f = "File::read_bytes" -> {Frame("File::read_bytes_async", TRUE)}
      [] f = "Writer::write" -> {Frame("writer.write", TRUE)}
      [] f = "Writer::flush" -> {Frame("writer.flush", TRUE)}
      [] f = "Writer::terminate_ref" -> {Frame("writer.shutdown", TRUE)}
      [] f = "Writer::poll_write" -> {Frame("writer.poll_write", FALSE)}
      [] f = "Writer::poll_flush" -> {Frame("writer.poll_flush", FALSE)}
      [] f = "Writer::poll_shutdown" ->
             {Frame("writer.poll_shutdown", FALSE),
              Frame("CreatedEntry::done", FALSE)}
      [] f = "Writer::drop" -> {Frame("CreatedEntry::drop", FALSE)}
      [] OTHER -> {}

\* The number of block_on calls a thread with these frames is inside.
RECURSIVE Depth(_)
Depth(frames) ==
    IF frames = <<>> THEN 0
    ELSE (IF Head(frames).bridged THEN 1 ELSE 0) + Depth(Tail(frames))

\* A caller thread that is inside no call of the crate invokes an operation.
EnterCall(t, f) ==
    /\ stack[t] = <<>>
    /\ stack' = [stack EXCEPT ![t] = <<Frame(f, FALSE)>>]
    /\ UNCHANGED <<store, bucket, cacheVars, threadVars, writer, historyVars,
                   last, atomic, locks>>

\* The innermost call of a thread makes one of the calls of its body.
InnerCall(t) ==
    /\ stack[t] # <<>>
    /\ Len(stack[t]) < MaxDepth
    /\ \E c \in Callees(stack[t][Len(stack[t])].fn) :
          stack' = [stack EXCEPT ![t] = Append(@, c)]
    /\ UNCHANGED <<store, bucket, cacheVars, threadVars, writer, historyVars,
                   last, atomic, locks>>

\* The innermost call of a thread returns.
ReturnCall(t) ==
    /\ stack[t] # <<>>
    /\ stack' = [stack EXCEPT ![t] = SubSeq(@, 1, Len(@) - 1)]
    /\ UNCHANGED <<store, bucket, cacheVars, threadVars, writer, historyVars,
                   last, atomic, locks>>

\* ------------------------------------------------------ the specification

\* RemoteDirectory::open: an empty Cache (Cache::default()), no call running.
Init ==
    /\ store = [p \in Paths |-> NoObject]
    /\ bucket \in {f \in [Paths -> Buckets] : f["a"] = 1}
    /\ created = [p \in {} |-> FALSE]
    /\ files = [p \in Paths |-> 0]
    /\ metadata = [p \in Paths |-> 0]
    /\ snaps = <<>>
    /\ handles = <<>>
    /\ filesLock = [b \in Buckets |-> 0]
    /\ metaLock = [b \in Buckets |-> 0]
    /\ pc = [t \in Threads |-> "idle"]
    /\ op = [t \in Threads |-> "none"]
    /\ arg = [t \in Threads |-> "none"]
    /\ local = [t \in Threads |-> NoLocal]
    /\ writer = [t \in Threads |-> NoWriter]
    /\ last = NoCall
    /\ populateOk = [p \in Paths |-> 0]
    /\ snapFresh = {}
    /\ reopened = {}
    /\ atomic = [p \in AtomicPaths |-> NoRow]
    /\ locks = [t \in Threads |-> [l \in LockNames |-> 0]]
    /\ stack = [t \in Threads |-> <<>>]

Next ==
    \/ \E t \in Threads, p \in Paths \cup AtomicPaths : Delete(t, p)
    \/ \E t \in Threads, f \in EntryPoints : EnterCall(t, f)
    \/ \E t \in Threads : InnerCall(t)
    \/ \E t \in Threads : ReturnCall(t)
    \/ \E t \in Threads, p \in AtomicPaths, content \in Contents :
          AtomicWrite(t, p, content)
    \/ \E t \in Threads, p \in AtomicPaths : AtomicRead(t, p)
    \/ \E t \in Threads, p \in AtomicPaths : ExistsAtomic(t, p)
    \/ \E t \in Threads, l \in LockNames : AcquireLock(t, l)
    \/ \E t \in Threads, l \in LockNames : DropLock(t, l)
    \/ \E p \in Paths, obj \in ExternalObjects : ExternalModify(p, obj)
    \/ \E t \in Threads, p \in Paths : Exists(t, p)
    \/ \E t \in Threads, p \in Paths : GetFileHandle(t, p)
    \/ \E t \in Threads : FileEntry(t)
    \/ \E t \in Threads : MetadataRead(t)
    \/ \E t \in Threads : MetadataEntry(t)
    \/ \E t \in Threads : MetadataFetch(t)
    \/ \E t \in Threads : FileInsert(t)
    \/ \E t \in Threads, p \in Paths : OpenWrite(t, p)
    \/ \E t \in Threads : OpenWriteCreated(t)
    \/ \E t \in Threads, chunk \in Chunks : WriterWrite(t, chunk)
    \/ \E t \in Threads : WriterFlush(t)
    \/ \E t \in Threads : WriterTerminate(t)
    \/ \E t \in Threads : WriterPollShutdown(t)
    \/ \E t \in Threads : DropWriter(t)
    \/ \E t \in Threads, h \in 1..Len(handles), lo \in 0..MaxLen, hi \in 0..MaxLen :
          ReadBytes(t, h, lo, hi)

Spec == Init /\ [][Next]_vars

\* The lookups alone: any thread looks up and reads any path while the
\* objects change under it (every change of an object, a Writer's included,
\* is a step of ExternalModify here).
NextCache ==
    \/ \E p \in Paths, obj \in ExternalObjects : ExternalModify(p, obj)
    \/ \E t \in Threads, p \in Paths : Exists(t, p)
    \/ \E t \in Threads, p \in Paths : GetFileHandle(t, p)
    \/ \E t \in Threads : FileEntry(t)
    \/ \E t \in Threads : MetadataRead(t)
    \/ \E t \in Threads : MetadataEntry(t)
    \/ \E t \in Threads : MetadataFetch(t)
    \/ \E t \in Threads : FileInsert(t)
    \/ \E t \in Threads, h \in 1..Len(handles), lo \in 0..MaxLen, hi \in 0..MaxLen :
          ReadBytes(t, h, lo, hi)

SpecCache == Init /\ [][NextCache]_vars

\* The Writers alone: any thread creates, writes, shuts down and drops a
\* Writer of any path; every write passes the same one-byte buffer.
NextWriter ==
    \/ \E t \in Threads, p \in Paths : OpenWrite(t, p)
    \/ \E t \in Threads : OpenWriteCreated(t)
    \/ \E t \in Threads : WriterWrite(t, <<"x">>)
    \/ \E t \in Threads : WriterFlush(t)
    \/ \E t \in Threads : WriterTerminate(t)
    \/ \E t \in Threads : WriterPollShutdown(t)
    \/ \E t \in Threads : DropWriter(t)

SpecWriter == Init /\ [][NextWriter]_vars

\* One path written and read back: thread 1 owns the Writers of path "a",
\* thread 2 looks the path up and reads it, and the object may be replaced
\* from outside.
NextRoundTrip ==
    \/ \E obj \in ExternalObjects : ExternalModify("a", obj)
    \/ OpenWrite(1, "a")
    \/ OpenWriteCreated(1)
    \/ \E chunk \in Chunks : WriterWrite(1, chunk)
    \/ WriterFlush(1)
    \/ WriterTerminate(1)
    \/ WriterPollShutdown(1)
    \/ DropWriter(1)
    \/ Exists(2, "a")
    \/ GetFileHandle(2, "a")
    \/ FileEntry(2)
    \/ MetadataRead(2)
    \/ MetadataEntry(2)
    \/ MetadataFetch(2)
    \/ FileInsert(2)
    \/ \E h \in 1..Len(handles), lo \in 0..MaxLen, hi \in 0..MaxLen :
          ReadBytes(2, h, lo, hi)

SpecRoundTrip == Init /\ [][NextRoundTrip]_vars

\* The atomic files alone: any thread writes, reads and looks up the rows
\* of the metadata store.
NextAtomic ==
    \/ \E t \in Threads, p \in AtomicPaths, content \in Contents :
          AtomicWrite(t, p, content)
    \/ \E t \in Threads, p \in AtomicPaths : AtomicRead(t, p)
    \/ \E t \in Threads, p \in AtomicPaths : ExistsAtomic(t, p)

SpecAtomic == Init /\ [][NextAtomic]_vars

\* The locks alone: any thread acquires and drops guards of any lock.
NextLock ==
    \/ \E t \in Threads, l \in LockNames : AcquireLock(t, l)
    \/ \E t \in Threads, l \in LockNames : DropLock(t, l)

SpecLock == Init /\ [][NextLock]_vars

\* The calls that take Entries, under fair scheduling: any thread looks up
\* any path and reserves path "a", while a file appears at path "a" (path
\* "b" never has one: its lookups fail and are retried).
NextLive ==
    \/ ExternalModify("a", FileObject(<<"y">>, "external"))
    \/ \E t \in Threads, p \in Paths : Exists(t, p)
    \/ \E t \in Threads, p \in Paths : GetFileHandle(t, p)
    \/ \E t \in Threads : FileEntry(t)
    \/ \E t \in Threads : MetadataRead(t)
    \/ \E t \in Threads : MetadataEntry(t)
    \/ \E t \in Threads : MetadataFetch(t)
    \/ \E t \in Threads : FileInsert(t)
    \/ \E t \in Threads : OpenWrite(t, "a")
    \/ \E t \in Threads : OpenWriteCreated(t)
    \/ \E t \in Threads : DropWriter(t)

\* Every backend call and callback returns (weak fairness of the steps that
\* wait for nothing), and a thread that waits for a bucket's lock gets it
\* if the lock is free again and again (strong fairness of the steps that
\* take or read-lock a bucket).
Fairness ==
    \A t \in Threads :
        /\ WF_vars(MetadataFetch(t))
        /\ WF_vars(FileInsert(t))
        /\ WF_vars(OpenWriteCreated(t))
        /\ SF_vars(FileEntry(t))
        /\ SF_vars(MetadataRead(t))
        /\ SF_vars(MetadataEntry(t))

SpecLive == Init /\ [][NextLive]_vars /\ Fairness

\* The calls alone: any thread invokes any operation and runs through the
\* calls of its body.
NextBridge ==
    \/ \E t \in Threads, f \in EntryPoints : EnterCall(t, f)
    \/ \E t \in Threads : InnerCall(t)
    \/ \E t \in Threads : ReturnCall(t)

SpecBridge == Init /\ [][NextBridge]_vars

\* exists alone: any thread asks for any path, atomic or not, while the
\* object at path "a" changes (path "b" never has one) and rows of the
\* metadata store are written.
NextExists ==
    \/ \E obj \in ExternalObjects : ExternalModify("a", obj)
    \/ \E t \in Threads, p \in AtomicPaths, content \in {<<>>, <<"x">>} :
          AtomicWrite(t, p, content)
    \/ \E t \in Threads, p \in AtomicPaths : ExistsAtomic(t, p)
    \/ \E t \in Threads, p \in Paths : Exists(t, p)
    \/ \E t \in Threads : MetadataEntry(t)
    \/ \E t \in Threads : MetadataFetch(t)

SpecExists == Init /\ [][NextExists]_vars

\* One path looked up, written, deleted and removed: thread 1 owns the
\* Writers of path "a", any thread looks the path up and deletes it, and
\* the object may be removed from outside.
NextMonotone ==
    \/ ExternalModify("a", NoObject)
    \/ OpenWrite(1, "a")
    \/ OpenWriteCreated(1)
    \/ WriterWrite(1, <<"x">>)
    \/ WriterTerminate(1)
    \/ WriterPollShutdown(1)
    \/ DropWriter(1)
    \/ \E t \in Threads : Delete(t, "a")
    \/ \E t \in Threads : Exists(t, "a")
    \/ \E t \in Threads : GetFileHandle(t, "a")
    \/ \E t \in Threads : FileEntry(t)
    \/ \E t \in Threads : MetadataRead(t)
    \/ \E t \in Threads : MetadataEntry(t)
    \/ \E t \in Threads : MetadataFetch(t)
    \/ \E t \in Threads : FileInsert(t)

SpecMonotone == Init /\ [][NextMonotone]_vars

\* delete among the other operations: thread 1 owns the Writers of path
\* "a", thread 2 looks the path up and writes and looks up meta.json, and
\* any thread deletes either path.
NextDelete ==
    \/ \E t \in Threads, p \in {"a", "meta.json"} : Delete(t, p)
    \/ OpenWrite(1, "a")
    \/ OpenWriteCreated(1)
    \/ WriterWrite(1, <<"x">>)
    \/ WriterPollShutdown(1)
    \/ DropWriter(1)
    \/ AtomicWrite(2, "meta.json", <<"x">>)
    \/ ExistsAtomic(2, "meta.json")
    \/ Exists(2, "a")
    \/ GetFileHandle(2, "a")
    \/ FileEntry(2)
    \/ MetadataRead(2)
    \/ MetadataEntry(2)
    \/ MetadataFetch(2)
    \/ FileInsert(2)

SpecDelete == Init /\ [][NextDelete]_vars

\* ------------------------------------------------------------ properties

\* The lookups the metadata mapping serves.
Lookups == {"exists", "get_file_handle"}

\* The threads whose populate callback for path p is running.
Populating(p) == {t \in Threads : pc[t] = "meta_fetch" /\ arg[t] = p}

\* C1: single-flight population of the metadata mapping.  For every path,
\* at most one populate callback runs at a time, it runs only while the
\* mapping has no snapshot of the path, at most one invocation ever returns
\* Ok, and every lookup that returns a snapshot returns the one snapshot the
\* mapping holds for the path, so racing callers share it.
C1_SingleFlight ==
    /\ \A p \in Paths :
          /\ populateOk[p] <= 1
          /\ Cardinality(Populating(p)) <= 1
          /\ Populating(p) # {} => metadata[p] = 0 /\ populateOk[p] = 0
          /\ metadata[p] # 0 => populateOk[p] = 1
    /\ (last.op \in Lookups /\ last.snap # 0) =>
          /\ last.snap = metadata[last.path]
          /\ snaps[last.snap].path = last.path

\* Two callers raced for one path: the one that returned last had missed
\* the fast path, then found the Entry occupied by the snapshot the other
\* caller's populate callback had inserted, and returned that snapshot.
C1_Witness ==
    /\ last.op = "exists"
    /\ last.kind = "ok"
    /\ last.via = "occupied"
    /\ last.snap = metadata[last.path]
    /\ populateOk[last.path] = 1

\* The threads that own a Writer, and with it a live CreatedEntry.
Owners == {t \in Threads : writer[t] # NoWriter}

\* The paths of the live CreatedEntry guards.
Reserved == {writer[t].entry.path : t \in Owners}

\* C2: of two open_write calls racing for one path at most one gets a
\* Writer.  No two live Writers share a path, and the reservation step of a
\* call returns FileAlreadyExists, leaving mapping and Writers as they
\* were, exactly when another caller's guard for the path is live;
\* otherwise it returns the new Writer.
C2_OneWinner ==
    /\ [](\A t1, t2 \in Owners :
            t1 # t2 => writer[t1].entry.path # writer[t2].entry.path)
    /\ [][\A t \in Threads :
            (pc[t] = "ow_created" /\ pc'[t] = "idle") =>
                IF \E u \in Threads : writer[u].entry.path = arg[t]
                THEN /\ last'.kind = "already_exists"
                     /\ last'.holder \in Threads \ {t}
                     /\ writer'[last'.holder].entry.path = arg[t]
                     /\ writer' = writer
                     /\ created' = created
                ELSE /\ last'.kind = "ok"
                     /\ writer'[t] = NewWriter(arg[t])
                     /\ arg[t] \in DOMAIN created']_vars

\* A call lost the race: it returned FileAlreadyExists while the winner
\* still holds the Writer it was just given for the same path.
C2_Witness ==
    /\ last.op = "open_write"
    /\ last.kind = "already_exists"
    /\ last.holder \in Threads
    /\ writer[last.holder] = NewWriter(last.path)

C5_DoneOnShutdown ==
    \A t \in Owners :
        writer[t].stream = "closed" =>
            /\ writer[t].entry.done
            /\ created[writer[t].entry.path]

\* A lookup that returned what a failed populate callback gave it: the
\* error, or exists' Ok(false) for FileDoesNotExist.
Failed(c) ==
    /\ c.op \in Lookups
    /\ \/ c.kind \in {"not_found", "io_error"}
       \/ c.op = "exists" /\ c.kind = "ok" /\ c.val = 0

\* The places of a get_file_handle call where its open closure is running.
InOpen == {"meta_read", "meta_entry", "meta_fetch", "file_insert"}

\* C6: failure is not cached.  The step in which a populate callback fails
\* returns the failure to the caller that ran the callback, leaves both
\* mappings without an entry for the path and no Entry held by that caller;
\* a failure is only ever returned by the caller's own callback; and a call
\* that still misses once it has the Entry runs its own callback.
C6_FailureNotCached ==
    /\ [][\A t \in Threads :
            (pc[t] = "meta_fetch" /\ pc'[t] = "idle" /\ Failed(last')) =>
                /\ last'.op = op[t] /\ last'.path = arg[t]
                /\ metadata'[arg[t]] = 0
                /\ files'[arg[t]] = 0
                /\ \A b \in Buckets : metaLock'[b] # t /\ filesLock'[b] # t
                /\ \A u \in Threads \ {t} : pc'[u] = pc[u]]_vars
    /\ [](Failed(last) => last.via = "populated" /\ metadata[last.path] = 0)
    /\ [][\A t \in Threads :
            (pc[t] = "meta_entry" /\ pc'[t] # "meta_entry"
                /\ metadata[arg[t]] = 0) =>
                pc'[t] = "meta_fetch" /\ metaLock'[bucket[arg[t]]] = t]_vars

\* The open callback of one get_file_handle call just failed while another
\* call for the same path waits for the Entry: nothing is cached for the
\* path and no Entry is held, so the waiter will run its own callback.
C6_Witness ==
    /\ last.op = "get_file_handle"
    /\ last.kind = "io_error"
    /\ files[last.path] = 0 /\ metadata[last.path] = 0
    /\ \A b \in Buckets : filesLock[b] = 0 /\ metaLock[b] = 0
    /\ \E t \in Threads : pc[t] = "file_entry" /\ arg[t] = last.path

\* C7: a cached file handle persists.  Once the files mapping has a handle
\* for a path, no step changes the entry or the handle object; open runs
\* only while the mapping has no handle for the path; and every
\* get_file_handle that returns Ok returns the handle the mapping holds,
\* whatever has become of the remote object.
C7_HandlePersists ==
    /\ [][\A p \in Paths :
            files[p] # 0 =>
                /\ files'[p] = files[p]
                /\ handles'[files[p]] = handles[files[p]]]_vars
    /\ [](\A t \in Threads :
            (op[t] = "get_file_handle" /\ pc[t] \in InOpen) =>
                files[arg[t]] = 0 /\ filesLock[bucket[arg[t]]] = t)
    /\ []((last.op = "get_file_handle" /\ last.kind = "ok") =>
                last.val = files[last.path] /\ handles[last.val].path = last.path)

\* A get_file_handle was answered from the files mapping, without a
\* metadata lookup, although the object is no longer a file.
C7_Witness ==
    /\ last.op = "get_file_handle"
    /\ last.kind = "ok"
    /\ last.via = "none"
    /\ last.val = files[last.path]
    /\ store[last.path].kind # "file"

\* C8: a cached metadata snapshot persists.  Once the metadata mapping has
\* a snapshot for a path, no step changes the entry or the snapshot
\* object; no populate callback starts for a path that has one; and a
\* lookup served by the mapping returns that snapshot.
C8_SnapshotPersists ==
    /\ [][\A p \in Paths :
            metadata[p] # 0 =>
                /\ metadata'[p] = metadata[p]
                /\ snaps'[metadata[p]] = snaps[metadata[p]]]_vars
    /\ [][\A t \in Threads :
            (pc[t] # "meta_fetch" /\ pc'[t] = "meta_fetch") =>
                metadata[arg'[t]] = 0]_vars
    /\ [](last.via \in {"fast", "occupied"} =>
                last.snap # 0 /\ last.snap = metadata[last.path])

\* exists was answered true from the metadata mapping's fast path although
\* the object is no longer a file.
C8_Witness ==
    /\ last.op = "exists"
    /\ last.kind = "ok" /\ last.val = 1
    /\ last.via = "fast"
    /\ store[last.path].kind # "file"

\* C9: the length of a File handle is fixed.  Every handle holds a snapshot
\* of its own path, the handle inserted by File::open holds the snapshot
\* its open closure was given, and no step (a read, a Writer storing a new
\* object at the path, a change from outside) changes what len() returns
\* for a handle that exists.
C9_LenFixed ==
    /\ [][\A h \in 1..Len(handles) : FileLen(h)' = FileLen(h)]_vars
    /\ [][\A t \in Threads :
            (pc[t] = "file_insert" /\ pc'[t] = "idle") =>
                /\ Len(handles') = Len(handles) + 1
                /\ handles'[Len(handles')].metadata = local[t].snap]_vars
    /\ [](\A h \in 1..Len(handles) :
            /\ handles[h].metadata \in 1..Len(snaps)
            /\ snaps[handles[h].metadata].path = handles[h].path)

\* A read through a handle whose path a Writer has stored a new object at:
\* the object's length differs from what len() still returns.
C9_Witness ==
    /\ last.op = "read_bytes"
    /\ last.kind = "ok"
    /\ store[last.path].by = "writer"
    /\ FileLen(last.val) # Len(store[last.path].content)

RECURSIVE Concat(_)
\* The concatenation of a sequence of buffers, in order.
Concat(chunks) ==
    IF chunks = <<>> THEN <<>> ELSE Head(chunks) \o Concat(Tail(chunks))

\* The object a Writer's completed shutdown stored is the concatenation of
\* the buffers of its write calls, in call order.
StoredIsConcat ==
    \A t \in Owners :
        (writer[t].stream = "closed" /\ store[writer[t].entry.path].by = "writer") =>
            store[writer[t].entry.path].content = Concat(writer[t].chunks)

\* The last step read the full range [0, len()) through a handle whose
\* path holds the object a Writer's shutdown stored.
ReadBack ==
    /\ last.op = "read_bytes"
    /\ last.kind = "ok"
    /\ last.full
    /\ store[last.path].by = "writer"

\* C10, as stated: the stored content is the concatenation of the written
\* buffers, and reading the full range through a handle that
\* get_file_handle returned after the shutdown returns exactly that
\* content.
C10_RoundTrip ==
    /\ StoredIsConcat
    /\ (ReadBack /\ last.path \in reopened) =>
            last.bytes = store[last.path].content

\* C10, amended: the stored content is the concatenation of the written
\* buffers; reading the full range returns exactly that content when the
\* handle's snapshot was taken after the shutdown, and otherwise the
\* beginning of it, as long as the snapshot's stale length.
C10_RoundTripFresh ==
    /\ StoredIsConcat
    /\ \A s \in snapFresh :
            store[snaps[s].path].kind = "file"
                /\ snaps[s].content_length = Len(store[snaps[s].path].content)
    /\ (ReadBack /\ last.snap \in snapFresh) =>
            last.bytes = store[last.path].content
    /\ ReadBack =>
            /\ Len(last.bytes) <= Len(store[last.path].content)
            /\ Len(last.bytes) <= FileLen(last.val)
            /\ last.bytes = SubSeq(store[last.path].content, 1, Len(last.bytes))

\* "y" then "x" were written through one Writer, its shutdown completed,
\* and a full read through a handle opened afterwards returned "yx".
C10_Witness ==
    /\ ReadBack
    /\ last.path \in reopened
    /\ last.snap \in snapFresh
    /\ \E t \in Owners :
          /\ writer[t].stream = "closed"
          /\ writer[t].entry.path = last.path
          /\ writer[t].chunks = << <<"y">>, <<"x">> >>
    /\ last.bytes = <<"y", "x">>

\* C11: done() is idempotent.  For the guard of every live Writer, a second
\* done() leaves the guard and the mapping as the first left them, with
\* both flags true, and it performs no update: whatever the mapping holds,
\* done() on a guard whose flag is set returns the mapping untouched.  A
\* poll_shutdown that completes again changes neither guard nor mapping.
C11_DoneIdempotent ==
    /\ [](\A t \in Owners :
            LET e  == writer[t].entry
                e1 == DoneEntry(e)
                c1 == DoneCreated(created, e)
            IN  /\ e1.done /\ c1[e.path]
                /\ DoneEntry(e1) = e1
                /\ DoneCreated(c1, e1) = c1
                /\ \A c \in [DOMAIN created -> BOOLEAN] : DoneCreated(c, e1) = c)
    /\ [][\A t \in Threads :
            (last'.op = "poll_shutdown" /\ last'.kind = "ok"
                /\ writer[t].entry.path = last'.path /\ writer[t].entry.done) =>
                /\ created' = created
                /\ writer'[t].entry = writer[t].entry]_vars

\* poll_shutdown completed a second time on one Writer: done() ran on a
\* guard it had already run on, and both flags are true.
C11_Witness ==
    /\ last.op = "poll_shutdown"
    /\ last.kind = "ok"
    /\ last.again
    /\ created[last.path]
    /\ \E t \in Owners : writer[t].entry = [path |-> last.path, done |-> TRUE]

\* Every object the store may hold at a path.
Objects == ExternalObjects \cup {FileObject(c, "writer") : c \in Contents}

\* C12: a directory is not a file.  Operator::metadata answers
\* FileDoesNotExist when stat reports a directory and Ok only for a file;
\* a populate step on a path that holds a directory returns a failure and
\* inserts nothing; and no snapshot was ever taken of anything but a file.
C12_DirectoryNotFound ==
    /\ [](/\ OperatorMetadata(DirObject, "ok").kind = "not_found"
          /\ \A obj \in Objects, io \in {"ok", "error"} :
                OperatorMetadata(obj, io).kind = "ok" => obj.kind = "file")
    /\ [][\A t \in Threads :
            (pc[t] = "meta_fetch" /\ pc'[t] # "meta_fetch"
                /\ store[arg[t]].kind = "dir") =>
                /\ Failed(last')
                /\ last'.path = arg[t]
                /\ metadata' = metadata
                /\ snaps' = snaps]_vars
    /\ [](\A s \in snapFresh : store[snaps[s].path].kind # "dir")

\* get_file_handle of a path that holds a directory returned
\* FileDoesNotExist from its own populate callback, and the metadata
\* mapping has nothing for the path.
C12_Witness ==
    /\ last.op = "get_file_handle"
    /\ last.kind = "not_found"
    /\ last.via = "populated"
    /\ store[last.path].kind = "dir"
    /\ metadata[last.path] = 0

\* The threads whose slow-path population of key p holds an Entry of the
\* files mapping: their open closure is running.
Opening(p) ==
    {t \in Threads : op[t] = "get_file_handle" /\ pc[t] \in InOpen /\ arg[t] = p}

\* C13: per-key isolation.  While the populate callback of key p runs in
\* the metadata mapping, or the open closure of key p in the files
\* mapping, the lock that population holds keeps no fast-path read
\* (read_async, read_sync) and no slow-path entry (entry_sync) of another
\* key q of the same mapping waiting.
C13_PerKeyIsolation ==
    \A p \in Paths : \A q \in Paths \ {p} :
        /\ \A t \in Populating(p) :
              \/ CanRead(metaLock, q) /\ CanLock(metaLock, q)
              \/ metaLock[bucket[q]] # t
        /\ \A t \in Opening(p) :
              \/ CanRead(filesLock, q) /\ CanLock(filesLock, q)
              \/ filesLock[bucket[q]] # t

\* C14: content is never cached.  Every read that returns Ok asked exactly
\* one read of a remote reader and returns bytes of the object as the store
\* holds it now (for the full range, its first len() bytes); a failed read
\* asked at most one; and a read step keeps nothing: store, mappings,
\* handles and Writers are as before.
C14_ContentNotCached ==
    /\ [](last.op = "read_bytes" =>
            /\ last.remote <= 1
            /\ last.kind = "ok" =>
                  /\ last.remote = 1
                  /\ store[last.path].kind = "file"
                  /\ \E lo \in 0..MaxLen, hi \in 0..MaxLen :
                        last.bytes = ReadRange(store[last.path].content, lo, hi)
                  /\ last.full =>
                        last.bytes = ReadRange(store[last.path].content, 0,
                                               FileLen(last.val)))
    /\ [][last'.op = "read_bytes" =>
            UNCHANGED <<store, cacheVars, writer, threadVars>>]_vars

\* A full read through a handle whose snapshot is older than the object
\* returned bytes a Writer stored after the snapshot was taken.
C14_Witness ==
    /\ ReadBack
    /\ last.remote = 1
    /\ last.snap \notin snapFresh
    /\ last.bytes # <<>>
    /\ last.bytes = ReadRange(store[last.path].content, 0, FileLen(last.val))

\* C15: atomic files are upserted per path.  A write that returns Ok
\* leaves the row of its path with exactly the bytes it was given, whether
\* or not the path had a row, and leaves every other row as it was; rows
\* change in no other step; and a read returns the bytes of the row its
\* path has now, or FileDoesNotExist when the path has none.
C15_AtomicUpsert ==
    /\ [][(last'.op = "atomic_write" /\ last'.kind = "ok") =>
            /\ atomic'[last'.path] = Row(last'.bytes)
            /\ \A q \in AtomicPaths \ {last'.path} : atomic'[q] = atomic[q]]_vars
    /\ [][atomic' # atomic =>
            last'.op = "atomic_write" /\ last'.kind = "ok"]_vars
    /\ [](last.op = "atomic_read" =>
            /\ last.kind = "ok" =>
                  atomic[last.path].present /\ last.bytes = atomic[last.path].content
            /\ last.kind = "not_found" => ~atomic[last.path].present
            /\ last.kind \in {"ok", "not_found", "io_error"})

\* A write replaced the row of one path while the other path keeps a row
\* with other bytes.
C15_Witness ==
    /\ last.op = "atomic_write"
    /\ last.kind = "ok"
    /\ last.again
    /\ atomic[last.path] = Row(last.bytes)
    /\ \E q \in AtomicPaths \ {last.path} :
          atomic[q].present /\ atomic[q].content # last.bytes

\* The guards of lock l held by all threads together.
Held(l) == {t \in Threads : locks[t][l] > 0}

\* C16: the directory does no locking.  acquire_lock never returns an
\* error; it can be called whoever holds guards of the lock (as long as
\* the caller keeps fewer than MaxGuards itself); and each call adds one
\* guard to the caller's and takes none away from anyone.
C16_NoLocking ==
    /\ [](last.op = "acquire_lock" => last.kind = "ok")
    /\ [](\A t \in Threads, l \in LockNames :
            (pc[t] = "idle" /\ locks[t][l] < MaxGuards) =>
                ENABLED AcquireLock(t, l))
    /\ [][last'.op = "acquire_lock" =>
            \E t \in Threads :
                locks' = [locks EXCEPT ![t][last'.path] = @ + 1]]_vars

\* Both threads hold a guard of the index writer's lock at the same time,
\* the second one just acquired.
C16_Witness ==
    /\ last = Call("acquire_lock", ".tantivy-writer.lock", "ok", 0)
    /\ Held(".tantivy-writer.lock") = Threads

\* C17: the flushed flag has one writer.  A path enters the mapping with
\* the flag false; the flag of a path that stays changes only from false
\* to true, in the step in which poll_shutdown of the path's own Writer
\* returns Ready(Ok) and calls done() for the first time; a true flag
\* means the owner's stream is shut down and its guard's flag is set; and
\* no write is accepted for a path whose flag is true.
C17_FlagSoleWriter ==
    /\ [][\A p \in DOMAIN created' :
            IF p \notin DOMAIN created
            THEN ~created'[p]
            ELSE created'[p] # created[p] =>
                    /\ ~created[p] /\ created'[p]
                    /\ last' = Call("poll_shutdown", p, "ok", 0)
                    /\ \E t \in Owners :
                          /\ writer[t].entry = [path |-> p, done |-> FALSE]
                          /\ writer'[t].entry = [path |-> p, done |-> TRUE]
                          /\ writer'[t].stream = "closed"]_vars
    /\ [](\A p \in DOMAIN created :
            created[p] =>
                \E t \in Owners :
                    /\ writer[t].entry = [path |-> p, done |-> TRUE]
                    /\ writer[t].stream = "closed")
    /\ []((last.op = "write" /\ last.kind = "ok") => ~created[last.path])

\* poll_shutdown of one Writer just completed and set the flag of its
\* path; the other Writer's stream was shut down by terminate and its flag
\* is still false.
C17_Witness ==
    /\ last = Call("poll_shutdown", last.path, "ok", 0)
    /\ last.path \in DOMAIN created
    /\ created[last.path]
    /\ \E t \in Owners :
          /\ writer[t].entry.path # last.path
          /\ writer[t].stream = "closed"
          /\ ~created[writer[t].entry.path]

\* The step thread t takes next inside its call can be taken now.
CanStep(t) ==
    \/ ENABLED FileEntry(t)
    \/ ENABLED MetadataRead(t)
    \/ ENABLED MetadataEntry(t)
    \/ ENABLED MetadataFetch(t)
    \/ ENABLED FileInsert(t)
    \/ ENABLED OpenWriteCreated(t)

\* C18: deadlock freedom.  In no state are all the threads that are inside
\* a call waiting (some thread inside a call can always take its next
\* step); a thread holds the lock of a metadata bucket only while its
\* populate callback runs, where it waits for no lock; and under fair
\* scheduling every call a thread is inside returns.
C18_DeadlockFree ==
    /\ []((\E t \in Threads : pc[t] # "idle") =>
            \E t \in Threads : pc[t] # "idle" /\ CanStep(t))
    /\ [](\A t \in Threads, b \in Buckets :
            metaLock[b] = t => pc[t] = "meta_fetch")
    /\ \A t \in Threads : (pc[t] # "idle") ~> (pc[t] = "idle")

\* A get_file_handle holds the files Entry of its path and waits for the
\* metadata bucket of the path, which the other thread holds as it
\* populates the same path for exists.
C18_Witness ==
    \E t \in Threads, u \in Threads :
        /\ op[t] = "get_file_handle" /\ pc[t] = "meta_entry"
        /\ filesLock[bucket[arg[t]]] = t
        /\ metaLock[bucket[arg[t]]] = u
        /\ op[u] = "exists" /\ pc[u] = "meta_fetch" /\ arg[u] = arg[t]

\* C19: no operation enters the blocking bridge while its thread is already
\* inside it: every thread is inside at most one block_on call, and a call
\* made through block_on is made by a thread that is inside none.
C19_BridgeDepth ==
    \A t \in Threads :
        /\ Depth(stack[t]) <= 1
        /\ \A i \in 1..Len(stack[t]) :
              stack[t][i].bridged => Depth(SubSeq(stack[t], 1, i - 1)) = 0

\* Both threads are inside the bridge, one of them at the stat of the
\* object store under get_file_handle, the deepest call of the crate.
C19_Witness ==
    /\ stack[1] # <<>>
    /\ stack[2] # <<>>
    /\ stack[1][1].fn = "get_file_handle"
    /\ stack[1][Len(stack[1])].fn = "Operator::metadata"
    /\ Depth(stack[1]) = 1
    /\ Depth(stack[2]) = 1
    /\ stack[2][1].fn = "exists"

\* C20: exists of an atomic path fails or answers whether the metadata
\* store holds a row of the path, whatever the object store and the caches
\* hold.  exists of another path answers Ok(true) when its lookup found a
\* cached snapshot or populated one from a file, Ok(false) when the
\* populate callback failed with NotFound (no object, or one that is not a
\* file), and returns every other failure of the callback as an error; a
\* failed lookup caches nothing.
C20_Exists ==
    last.op = "exists" =>
        IF last.path \in AtomicPaths
        THEN /\ last.kind \in {"ok", "io_error"}
             /\ last.kind = "ok" =>
                   last.val = (IF atomic[last.path].present THEN 1 ELSE 0)
        ELSE /\ last.kind \in {"ok", "io_error"}
             /\ last.kind = "ok" => last.val \in {0, 1}
             /\ (last.kind = "ok" /\ last.val = 1) <=>
                   (last.snap # 0 /\ metadata[last.path] = last.snap)
             /\ (last.kind = "ok" /\ last.val = 1 /\ last.via = "populated") =>
                   store[last.path].kind = "file"
             /\ (last.kind = "ok" /\ last.val = 0) =>
                   /\ last.via = "populated"
                   /\ store[last.path].kind # "file"
                   /\ metadata[last.path] = 0
             /\ last.kind = "io_error" =>
                   /\ last.via = "populated"
                   /\ metadata[last.path] = 0

\* exists has answered Ok(false) for a path where the object store holds a
\* directory, after a populate callback that cached nothing.
C20_Witness ==
    /\ last.op = "exists"
    /\ last.path \in Paths
    /\ last.kind = "ok"
    /\ last.val = 0
    /\ last.via = "populated"
    /\ store[last.path] = DirObject
    /\ metadata[last.path] = 0

\* exists has answered Ok(true) for an atomic path whose row is there while
\* no object and no snapshot exist at all.
AtomicExistsAnswered ==
    /\ last.op = "exists"
    /\ last.path \in AtomicPaths
    /\ last.kind = "ok"
    /\ last.val = 1
    /\ \A p \in Paths : store[p] = NoObject /\ metadata[p] = 0

\* C21: for a non-atomic path the answer of exists only moves from false
\* to true.  A cached snapshot is never removed or replaced, whatever is
\* deleted or removed; an exists or get_file_handle that succeeded has left
\* one; an exists that returns while one is cached answers Ok(true).  An
\* exists that answers Ok(false) has cached nothing and found no file: once
\* a Writer has stored the file, an exists that populates answers Ok(true)
\* (or returns the failure of its stat).
C21_ExistsMonotone ==
    /\ [][\A p \in Paths : metadata[p] # 0 => metadata'[p] = metadata[p]]_vars
    /\ []((/\ last.op \in {"exists", "get_file_handle"}
           /\ last.kind = "ok"
           /\ last.op = "exists" => last.val = 1)
          => metadata[last.path] # 0)
    /\ []((last.op = "exists" /\ last.path \in Paths /\ metadata[last.path] # 0)
          => (last.kind = "ok" /\ last.val = 1))
    /\ []((last.op = "exists" /\ last.path \in Paths /\ last.kind = "ok"
              /\ last.val = 0)
          => (metadata[last.path] = 0 /\ store[last.path].kind # "file"))

\* exists has answered Ok(true) from the snapshot cached for a file that a
\* Writer stored and that was removed from the object store since.
C21_Witness ==
    /\ last.op = "exists"
    /\ last.kind = "ok"
    /\ last.val = 1
    /\ last.via = "fast"
    /\ store[last.path] = NoObject
    /\ snaps[metadata[last.path]].content_length = 1

\* exists has answered Ok(true) by populating from the file a Writer
\* stored.
ExistsAfterWrite ==
    /\ last.op = "exists"
    /\ last.kind = "ok"
    /\ last.val = 1
    /\ last.via = "populated"
    /\ store[last.path].by = "writer"

\* C22: a path that has a handle in the file-handle mapping has a snapshot
\* in the metadata mapping, and the handle holds that very snapshot.
C22_HandleHoldsCachedSnapshot ==
    \A p \in Paths :
        files[p] # 0 =>
            /\ metadata[p] # 0
            /\ handles[files[p]].metadata = metadata[p]
            /\ handles[files[p]].path = p
            /\ snaps[metadata[p]].path = p

\* Both paths have a handle, and get_file_handle has just built one of them
\* from a snapshot that an earlier exists had cached, for an object that
\* is no longer a file.
C22_Witness ==
    /\ \A p \in Paths : files[p] # 0
    /\ last.op = "get_file_handle"
    /\ last.kind = "ok"
    /\ last.via = "fast"
    /\ files[last.path] = last.val
    /\ store[last.path].kind # "file"

\* C23: open_write reserves the path only after the remote writer was
\* opened.  A path becomes a key of the created-files mapping only in the
\* step of an open_write that had opened its remote writer and returns Ok
\* with a new Writer of that path; an open_write that fails, at the remote
\* open (FileAlreadyExists or an I/O error) or at the reservation
\* (FileAlreadyExists), leaves the mapping with its flags, the store and
\* every Writer as they were, and its thread without a Writer.
C23_ReserveAfterOpen ==
    [][/\ \A p \in DOMAIN created' \ DOMAIN created :
             \E t \in Threads :
                 /\ pc[t] = "ow_created"
                 /\ arg[t] = p
                 /\ pc'[t] = "idle"
                 /\ last' = Call("open_write", p, "ok", 0)
                 /\ writer'[t] = NewWriter(p)
                 /\ created'[p] = FALSE
       /\ (last'.op = "open_write" /\ last'.kind # "ok") =>
             /\ last'.kind \in {"already_exists", "io_error"}
             /\ created' = created
             /\ store' = store
             /\ writer' = writer
             /\ \E t \in Threads :
                   /\ pc[t] \in {"idle", "ow_created"}
                   /\ pc'[t] = "idle"
                   /\ writer'[t] = NoWriter
                   /\ pc[t] = "ow_created" =>
                         /\ last'.kind = "already_exists"
                         /\ last'.path = arg[t]
                         /\ arg[t] \in DOMAIN created
                         /\ last'.holder # t
                         /\ writer[last'.holder].entry.path = arg[t]
      ]_vars

\* open_write has failed at the reservation of a path whose Writer, held by
\* the other thread, was shut down: the reservation and its flag are still
\* there, the failing thread has no Writer, and the stored object is the
\* one the holder wrote.
C23_Witness ==
    /\ last.op = "open_write"
    /\ last.kind = "already_exists"
    /\ last.holder # 0
    /\ last.path \in DOMAIN created
    /\ created[last.path]
    /\ writer[last.holder].stream = "closed"
    /\ store[last.path] = FileObject(<<"x">>, "writer")
    /\ \E t \in Threads \ {last.holder} : writer[t] = NoWriter

\* The lock thread t waits for is held by a lookup of another thread.
BlockedByLookup(t) ==
    \E u \in Threads \ {t} :
        /\ op[u] \in {"exists", "get_file_handle"}
        /\ \/ pc[t] = "file_entry" /\ filesLock[bucket[arg[t]]] = u
           \/ pc[t] \in {"meta_read", "meta_entry"} /\ metaLock[bucket[arg[t]]] = u

\* C24: the three mappings are independent.  A step that changes the
\* created-files mapping (created, done, the guard's drop) leaves the
\* file-handle and metadata mappings and their locks unchanged; a step that
\* changes the metadata mapping leaves the other two unchanged; the step of
\* Cache::file that inserts a handle leaves the other two unchanged.  A
\* reservation neither blocks nor fails a lookup: a thread inside a lookup
\* that cannot step waits for a lock another lookup holds, a thread inside
\* no call can start a lookup whenever no lookup holds the bucket, and a
\* lookup reports NotFound only when the store holds no file.
C24_Independent ==
    /\ [][/\ created' # created =>
                UNCHANGED <<files, metadata, handles, snaps, filesLock, metaLock>>
          /\ metadata' # metadata => UNCHANGED <<created, files, handles>>
          /\ files' # files => UNCHANGED <<created, metadata, snaps>>
         ]_vars
    /\ [](\A t \in Threads :
            (op[t] \in {"exists", "get_file_handle"} /\ ~CanStep(t))
                => BlockedByLookup(t))
    /\ [](\A t \in Threads : \A p \in {"a"} :
            (pc[t] = "idle" /\ metaLock[bucket[p]] = 0 /\ filesLock[bucket[p]] = 0)
                => (ENABLED Exists(t, p) /\ ENABLED GetFileHandle(t, p)))
    /\ []((\/ last.op = "get_file_handle" /\ last.kind = "not_found"
           \/ last.op = "exists" /\ last.path \in Paths /\ last.kind = "ok"
                 /\ last.val = 0)
          => store[last.path].kind # "file")

\* get_file_handle has populated the snapshot and the handle of a path
\* while the other thread holds the unfinished reservation of that path.
C24_Witness ==
    /\ last.op = "get_file_handle"
    /\ last.kind = "ok"
    /\ last.via = "populated"
    /\ last.path \in DOMAIN created
    /\ ~created[last.path]
    /\ writer[1].entry.path = last.path
    /\ writer[1].stream = "open"
    /\ files[last.path] = last.val

\* C25: delete is a no-op that reports success.  The step in which a delete
\* returns returns Ok and leaves the object store, the metadata store, the
\* three mappings with their handles and snapshots, every Writer, every
\* lock and every call in progress as they were, so that whatever
\* get_file_handle, exists and open_write would have answered before it
\* they answer after it.
C25_DeleteNoOp ==
    [][last'.op = "delete" =>
          /\ last' = Call("delete", last'.path, "ok", 0)
          /\ UNCHANGED <<store, atomic, created, files, metadata, snaps, handles,
                         filesLock, metaLock, writer, locks, pc, op, arg, local>>
      ]_vars

\* delete has returned for a path that has a stored object, a cached
\* snapshot, a cached handle and a live reservation, while meta.json has a
\* row: all of them are still there.
C25_Witness ==
    /\ last.op = "delete"
    /\ last.path = "a"
    /\ store["a"].kind = "file"
    /\ metadata["a"] # 0
    /\ files["a"] # 0
    /\ "a" \in DOMAIN created
    /\ atomic["meta.json"].present

====
